---- MODULE Spec2Model ----
(***************************************************************************)
(* GoAWK: the lexer (package lexer, Lexer.Scan / Lexer.ScanRegex) and the  *)
(* command-line program (package main) with the interpreter's exit         *)
(* handling.                                                               *)
(*                                                                         *)
(* The lexer is modelled on byte sequences: src is a sequence of bytes     *)
(* (0..255), offset is a byte offset, ch is the decoded rune (an integer   *)
(* code point, -1 at end of input or at an invalid byte).  Token values    *)
(* are sequences of runes.                                                 *)
(***************************************************************************)
EXTENDS Integers, Sequences, FiniteSets, TLC

VARIABLES
    lex,      \* the Lexer object: src, offset, ch, errorMsg, pos, nextPos, hadSpace, lastTok
    ret,      \* (Position, Token, string) returned by the last Scan / ScanRegex call
    op,       \* the last operation on the lexer: "NewLexer", "Scan" or "ScanRegex"
    pre,      \* the Lexer object as it was when the last call was made
    preRet,   \* what the call before the last one returned
    pc,          \* where func main() of the command-line program is
    prog,        \* the parsed program: its rules, in program order
    log,         \* the statements executed so far, as [rule, stmt]
    nread,       \* the number of input records read
    exitStatus,  \* the interpreter's exit status, p.ExitStatus()
    execErr,     \* p.Exec returned an error
    status,      \* the exit status of the process (-1 while it runs)
    cause        \* why the process exited

lexVars == <<lex, ret, op, pre, preRet>>
mainVars == <<pc, prog, log, nread, exitStatus, execErr, status, cause>>
vars == <<lexVars, mainVars>>

-----------------------------------------------------------------------------
(* Runes the lexer tests for.                                              *)
TAB == 9
LF == 10
CR == 13
SPACE == 32
QUOTE == 34
HASH == 35
AMP == 38
APOS == 39
SLASH == 47
EQ == 61
BACKSLASH == 92
RuneError == 65533

(***************************************************************************)
(* Go strings.  A token value or error message is the record               *)
(*   [fmt, runes, tok]: a plain string has fmt = "" and is the rune        *)
(* sequence `runes`; a message built by fmt.Sprintf has the format string  *)
(* in fmt and its rune / byte / Token argument in runes / tok.             *)
(***************************************************************************)
Str(runes) == [fmt |-> "", runes |-> runes, tok |-> ""]
Msg(f, runes, tok) == [fmt |-> f, runes |-> runes, tok |-> tok]
IsEmpty(v) == v.fmt = "" /\ v.runes = <<>>

Position(line, col) == [Line |-> line, Column |-> col]

(***************************************************************************)
(* utf8.DecodeRune on the bytes from offset on: ASCII and two-byte         *)
(* sequences are decoded; every other lead byte is an encoding error       *)
(* (RuneError, width 1); no bytes at all is (RuneError, 0).                *)
(***************************************************************************)
DecodeRune(src, offset) ==
    IF offset >= Len(src) THEN [ch |-> RuneError, size |-> 0]
    ELSE LET b0 == src[offset + 1] IN
         IF b0 < 128 THEN [ch |-> b0, size |-> 1]
         ELSE IF /\ b0 >= 194 /\ b0 <= 223
                 /\ offset + 1 < Len(src)
                 /\ src[offset + 2] >= 128 /\ src[offset + 2] <= 191
              THEN [ch |-> (b0 - 192) * 64 + (src[offset + 2] - 128), size |-> 2]
              ELSE [ch |-> RuneError, size |-> 1]

(***************************************************************************)
(* Bind(v, F) is F(v) with v evaluated once, as a Go local variable is:    *)
(* l1 := ...; use of l1.                                                   *)
(***************************************************************************)
Bind(v, F(_)) == CHOOSE r \in {F(x) : x \in {v}} : TRUE

(* How next() moves nextPos over the rune d.ch.                            *)
advance(nextPos, d) ==
    IF d.ch = LF
    THEN Position(nextPos.Line + 1, 1)
    ELSE Position(nextPos.Line, nextPos.Column + 1)

(* next() that does not record an invalid byte.                            *)
nextDropsError(l) ==
    Bind(DecodeRune(l.src, l.offset), LAMBDA d :
        IF d.size = 0 \/ d.ch = RuneError
        THEN [l EXCEPT !.pos = l.nextPos, !.ch = -1]
        ELSE [l EXCEPT !.pos = l.nextPos,
                       !.nextPos = advance(l.nextPos, d),
                       !.ch = d.ch,
                       !.offset = l.offset + d.size])

(* next() whose column counts bytes.                                       *)
nextCountsBytes(l) ==
    Bind(DecodeRune(l.src, l.offset), LAMBDA d :
        IF d.size = 0
        THEN [l EXCEPT !.pos = l.nextPos, !.ch = -1]
        ELSE IF d.ch = RuneError
        THEN [l EXCEPT !.pos = l.nextPos, !.ch = -1,
                       !.errorMsg = Msg("invalid UTF-8 byte 0x%02x",
                                        <<l.src[l.offset + 1]>>, "")]
        ELSE [l EXCEPT !.pos = l.nextPos,
                       !.nextPos = IF d.ch = LF
                                   THEN Position(l.nextPos.Line + 1, 1)
                                   ELSE Position(l.nextPos.Line,
                                                 l.nextPos.Column + d.size),
                       !.ch = d.ch,
                       !.offset = l.offset + d.size])

(* func (l *Lexer) next()                                                  *)
next(l) ==
    Bind(DecodeRune(l.src, l.offset), LAMBDA d :
        IF d.size = 0
        THEN [l EXCEPT !.pos = l.nextPos, !.ch = -1]
        ELSE IF d.ch = RuneError
        THEN [l EXCEPT !.pos = l.nextPos, !.ch = -1,
                       !.errorMsg = Msg("invalid UTF-8 byte 0x%02x",
                                        <<l.src[l.offset + 1]>>, "")]
        ELSE [l EXCEPT !.pos = l.nextPos,
                       !.nextPos = advance(l.nextPos, d),
                       !.ch = d.ch,
                       !.offset = l.offset + d.size])

(* func NewLexer(src []byte) *Lexer.  lastTok starts as Token's zero value. *)
ZeroToken == "ILLEGAL"

NewLexer(src) ==
    Bind([src |-> src, offset |-> 0, ch |-> 0, errorMsg |-> Str(<<>>),
          pos |-> Position(0, 0), nextPos |-> Position(1, 1),
          hadSpace |-> FALSE, lastTok |-> ZeroToken],
         LAMBDA l : next(l))

isNameStart(ch) ==
    ch = 95 \/ (ch >= 97 /\ ch <= 122) \/ (ch >= 65 /\ ch <= 90)

isDigit(ch) == ch >= 48 /\ ch <= 57

(* func (l *Lexer) choice(ch rune, one, two Token) Token                   *)
choice(l, ch, one, two) ==
    IF l.ch = ch THEN [l |-> next(l), tok |-> two] ELSE [l |-> l, tok |-> one]

(* The keyword table: names that are tokens of their own.                  *)
keywordTokens(name) ==
    CASE name = <<105, 110>> -> "IN"                \* "in"
      [] name = <<105, 102>> -> "IF"                \* "if"
      [] name = <<100, 111>> -> "DO"                \* "do"
      [] name = <<69, 78, 68>> -> "END"             \* "END"
      [] name = <<105, 110, 116>> -> "F_INT"        \* "int"
      [] OTHER -> ""

Return(l, pos, tok, val) == [l |-> l, pos |-> pos, tok |-> tok, val |-> val]

-----------------------------------------------------------------------------
(* The loops of scan().                                                    *)

(* skipSpace that flags spaces and tabs only.                              *)
RECURSIVE skipSpaceFlagsBlanks(_)
skipSpaceFlagsBlanks(l) ==
    IF l.ch = SPACE \/ l.ch = TAB \/ l.ch = CR \/ l.ch = BACKSLASH
    THEN Bind(IF l.ch = SPACE \/ l.ch = TAB
              THEN [l EXCEPT !.hadSpace = TRUE] ELSE l, LAMBDA l0 :
         IF l0.ch = BACKSLASH
         THEN Bind(next(l0), LAMBDA l1 :
              Bind(IF l1.ch = CR THEN next(l1) ELSE l1, LAMBDA l2 :
                  IF l2.ch # LF
                  THEN [l |-> l2, ok |-> FALSE]
                  ELSE Bind(next(l2), LAMBDA l3 : skipSpaceFlagsBlanks(l3))))
         ELSE Bind(next(l0), LAMBDA l1 : skipSpaceFlagsBlanks(l1)))
    ELSE [l |-> l, ok |-> TRUE]

(* Whitespace and line continuations before a token.  ok is FALSE when a   *)
(* backslash is not followed by a line feed.                               *)
RECURSIVE skipSpace(_)
skipSpace(l) ==
    IF l.ch = SPACE \/ l.ch = TAB \/ l.ch = CR \/ l.ch = BACKSLASH
    THEN Bind([l EXCEPT !.hadSpace = TRUE], LAMBDA l0 :
         IF l0.ch = BACKSLASH
         THEN Bind(next(l0), LAMBDA l1 :
              Bind(IF l1.ch = CR THEN next(l1) ELSE l1, LAMBDA l2 :
                  IF l2.ch # LF
                  THEN [l |-> l2, ok |-> FALSE]
                  ELSE Bind(next(l2), LAMBDA l3 : skipSpace(l3))))
         ELSE Bind(next(l0), LAMBDA l1 : skipSpace(l1)))
    ELSE [l |-> l, ok |-> TRUE]

(* skipComment that takes the line feed ending the comment as part of it.  *)
RECURSIVE skipCommentEatsNewline(_)
skipCommentEatsNewline(l) ==
    IF l.ch < 0 THEN l
    ELSE IF l.ch = LF THEN next(l)
    ELSE Bind(next(l), LAMBDA l1 : skipCommentEatsNewline(l1))

(* for l.ch != '\n' && l.ch >= 0 { l.next() }                              *)
RECURSIVE skipComment(_)
skipComment(l) ==
    IF l.ch # LF /\ l.ch >= 0
    THEN Bind(next(l), LAMBDA l1 : skipComment(l1))
    ELSE l

(* for isNameStart(l.ch) || (l.ch >= '0' && l.ch <= '9')                   *)
RECURSIVE scanName(_, _)
scanName(l, runes) ==
    IF isNameStart(l.ch) \/ isDigit(l.ch)
    THEN Bind(next(l), LAMBDA l1 : scanName(l1, Append(runes, l.ch)))
    ELSE [l |-> l, runes |-> runes]

(* for l.ch >= '0' && l.ch <= '9'                                          *)
RECURSIVE scanDigits(_, _)
scanDigits(l, runes) ==
    IF isDigit(l.ch)
    THEN Bind(next(l), LAMBDA l1 : scanDigits(l1, Append(runes, l.ch)))
    ELSE [l |-> l, runes |-> runes]

(* One rune appended and the lexer advanced: runes = append(runes, l.ch);  *)
(* l.next()                                                                *)
take(s) == [l |-> next(s.l), runes |-> Append(s.runes, s.l.ch)]

(* case '0' .. '9', '.'                                                    *)
scanNumber(l, pos, ch) ==
    Bind(IF ch # 46
         THEN Bind(scanDigits(l, <<ch>>), LAMBDA d :
                   IF d.l.ch = 46 THEN take(d) ELSE d)
         ELSE [l |-> l, runes |-> <<ch>>], LAMBDA a :
    Bind(scanDigits(a.l, a.runes), LAMBDA b :
        IF ~(ch # 46 \/ Len(b.runes) > Len(a.runes))
        THEN Return(b.l, b.l.pos, "ILLEGAL", Msg("expected digits", <<>>, ""))
        ELSE IF b.l.ch = 101 \/ b.l.ch = 69
        THEN Bind(take(b), LAMBDA e1 :
             Bind(IF e1.l.ch = 43 \/ e1.l.ch = 45 THEN take(e1) ELSE e1, LAMBDA e2 :
             Bind(scanDigits(e2.l, e2.runes), LAMBDA e3 :
                 Return(e3.l, pos, "NUMBER", Str(e3.runes)))))
        ELSE Return(b.l, pos, "NUMBER", Str(b.runes))))

(* The escape switch of a string literal: the rune a backslash-x stands for. *)
stringEscape(x) ==
    CASE x = 116 -> TAB
      [] x = 114 -> CR
      [] x = 110 -> LF
      [] OTHER -> x

(* scanString that accepts the escapes \" \\ \t \r \n only.                *)
RECURSIVE scanStringStrict(_, _, _, _)
scanStringStrict(l, pos, ch, runes) ==
    IF l.ch = ch
    THEN Return(next(l), pos, "STRING", Str(runes))
    ELSE IF l.ch < 0
    THEN Return(l, l.pos, "ILLEGAL", Msg("didn't find end quote in string", <<>>, ""))
    ELSE IF l.ch = CR \/ l.ch = LF
    THEN Return(l, l.pos, "ILLEGAL", Msg("can't have newline in string", <<>>, ""))
    ELSE IF l.ch = BACKSLASH
    THEN Bind(next(l), LAMBDA l1 :
         IF l1.ch \in {QUOTE, BACKSLASH, 116, 114, 110}
         THEN Bind(next(l1), LAMBDA l2 :
                   scanStringStrict(l2, pos, ch, Append(runes, stringEscape(l1.ch))))
         ELSE Return(l1, l1.pos, "ILLEGAL",
                     Msg("invalid string escape \\%c", <<l1.ch>>, "")))
    ELSE Bind(next(l), LAMBDA l1 : scanStringStrict(l1, pos, ch, Append(runes, l.ch)))

(* scanString without the newline test.                                    *)
RECURSIVE scanStringAnyNewline(_, _, _, _)
scanStringAnyNewline(l, pos, ch, runes) ==
    IF l.ch = ch
    THEN Return(next(l), pos, "STRING", Str(runes))
    ELSE IF l.ch < 0
    THEN Return(l, l.pos, "ILLEGAL", Msg("didn't find end quote in string", <<>>, ""))
    ELSE IF l.ch = BACKSLASH
    THEN Bind(next(l), LAMBDA l1 :
         Bind(next(l1), LAMBDA l2 :
              scanStringAnyNewline(l2, pos, ch, Append(runes, stringEscape(l1.ch)))))
    ELSE Bind(next(l), LAMBDA l1 : scanStringAnyNewline(l1, pos, ch, Append(runes, l.ch)))

(* case '"', '\'': the loop up to the closing quote ch.                    *)
RECURSIVE scanString(_, _, _, _)
scanString(l, pos, ch, runes) ==
    IF l.ch = ch
    THEN Return(next(l), pos, "STRING", Str(runes))
    ELSE IF l.ch < 0
    THEN Return(l, l.pos, "ILLEGAL", Msg("didn't find end quote in string", <<>>, ""))
    ELSE IF l.ch = CR \/ l.ch = LF
    THEN Return(l, l.pos, "ILLEGAL", Msg("can't have newline in string", <<>>, ""))
    ELSE IF l.ch = BACKSLASH
    THEN Bind(next(l), LAMBDA l1 :
         Bind(next(l1), LAMBDA l2 :
              scanString(l2, pos, ch, Append(runes, stringEscape(l1.ch)))))
    ELSE Bind(next(l), LAMBDA l1 : scanString(l1, pos, ch, Append(runes, l.ch)))

(* regexLoop unescaping like a string: the backslash of every pair is      *)
(* dropped.                                                                *)
RECURSIVE regexLoopDropsBackslash(_, _, _)
regexLoopDropsBackslash(l, pos, runes) ==
    IF l.ch = SLASH
    THEN Return(next(l), pos, "REGEX", Str(runes))
    ELSE IF l.ch < 0
    THEN Return(l, l.pos, "ILLEGAL", Msg("didn't find end slash in regex", <<>>, ""))
    ELSE IF l.ch = CR \/ l.ch = LF
    THEN Return(l, l.pos, "ILLEGAL", Msg("can't have newline in regex", <<>>, ""))
    ELSE IF l.ch = BACKSLASH
    THEN Bind(next(l), LAMBDA l1 :
         Bind(next(l1), LAMBDA l2 :
              regexLoopDropsBackslash(l2, pos, Append(runes, l1.ch))))
    ELSE Bind(next(l), LAMBDA l1 : regexLoopDropsBackslash(l1, pos, Append(runes, l.ch)))

(* The loop of scanRegex up to the closing slash.                          *)
RECURSIVE regexLoop(_, _, _)
regexLoop(l, pos, runes) ==
    IF l.ch = SLASH
    THEN Return(next(l), pos, "REGEX", Str(runes))
    ELSE IF l.ch < 0
    THEN Return(l, l.pos, "ILLEGAL", Msg("didn't find end slash in regex", <<>>, ""))
    ELSE IF l.ch = CR \/ l.ch = LF
    THEN Return(l, l.pos, "ILLEGAL", Msg("can't have newline in regex", <<>>, ""))
    ELSE IF l.ch = BACKSLASH
    THEN Bind(next(l), LAMBDA l1 :
         Bind(next(l1), LAMBDA l2 :
              regexLoop(l2, pos,
                        Append(IF l1.ch # SLASH THEN Append(runes, BACKSLASH) ELSE runes,
                               l1.ch))))
    ELSE Bind(next(l), LAMBDA l1 : regexLoop(l1, pos, Append(runes, l.ch)))

(* case '/' that guesses: a '/' with another '/' later on the same line is *)
(* scanned as a regex at once.                                             *)
RECURSIVE slashOnLine(_, _)
slashOnLine(src, i) ==
    IF i > Len(src) \/ src[i] = LF THEN FALSE
    ELSE IF src[i] = SLASH THEN TRUE
    ELSE slashOnLine(src, i + 1)

scanSlashGuessesRegex(l, pos) ==
    IF slashOnLine(l.src, l.offset)
    THEN regexLoop(l, pos, <<>>)
    ELSE Bind(choice(l, EQ, "DIV", "DIV_ASSIGN"), LAMBDA c :
              Return(c.l, pos, c.tok, Str(<<>>)))

(* case '/': tok = l.choice('=', DIV, DIV_ASSIGN)                          *)
scanSlash(l, pos) ==
    Bind(choice(l, EQ, "DIV", "DIV_ASSIGN"), LAMBDA c :
         Return(c.l, pos, c.tok, Str(<<>>)))

(* The switch on the token's first character ch; l is the lexer after it.  *)
scanSwitch(l, pos, ch) ==
    LET One(tok) == Return(l, pos, tok, Str(<<>>))
        Two(cc)  == Bind(cc, LAMBDA c : Return(c.l, pos, c.tok, Str(<<>>)))
        Adv(tok) == Return(next(l), pos, tok, Str(<<>>))
    IN  CASE ch = LF  -> One("NEWLINE")
          [] ch = 58  -> One("COLON")
          [] ch = 44  -> One("COMMA")
          [] ch = SLASH -> scanSlash(l, pos)
          [] ch = 123 -> One("LBRACE")
          [] ch = 91  -> One("LBRACKET")
          [] ch = 40  -> One("LPAREN")
          [] ch = 45  -> IF l.ch = 45 THEN Adv("DECR")
                         ELSE IF l.ch = EQ THEN Adv("SUB_ASSIGN")
                         ELSE One("SUB")
          [] ch = 37  -> Two(choice(l, EQ, "MOD", "MOD_ASSIGN"))
          [] ch = 43  -> IF l.ch = 43 THEN Adv("INCR")
                         ELSE IF l.ch = EQ THEN Adv("ADD_ASSIGN")
                         ELSE One("ADD")
          [] ch = 125 -> One("RBRACE")
          [] ch = 93  -> One("RBRACKET")
          [] ch = 41  -> One("RPAREN")
          [] ch = 42  -> IF l.ch = 42
                         THEN Bind(next(l), LAMBDA l1 :
                                   Two(choice(l1, EQ, "POW", "POW_ASSIGN")))
                         ELSE IF l.ch = EQ THEN Adv("MUL_ASSIGN")
                         ELSE One("MUL")
          [] ch = EQ  -> Two(choice(l, EQ, "ASSIGN", "EQUALS"))
          [] ch = 94  -> Two(choice(l, EQ, "POW", "POW_ASSIGN"))
          [] ch = 33  -> IF l.ch = EQ THEN Adv("NOT_EQUALS")
                         ELSE IF l.ch = 126 THEN Adv("NOT_MATCH")
                         ELSE One("NOT")
          [] ch = 60  -> Two(choice(l, EQ, "LESS", "LTE"))
          [] ch = 62  -> IF l.ch = EQ THEN Adv("GTE")
                         ELSE IF l.ch = 62 THEN Adv("APPEND")
                         ELSE One("GREATER")
          [] ch = 126 -> One("MATCH")
          [] ch = 63  -> One("QUESTION")
          [] ch = 59  -> One("SEMICOLON")
          [] ch = 36  -> One("DOLLAR")
          [] ch = AMP -> Bind(choice(l, AMP, "ILLEGAL", "AND"), LAMBDA c :
                         IF c.tok = "ILLEGAL"
                         THEN Return(c.l, c.l.pos, "ILLEGAL",
                                     Msg("unexpected %q after '&'", <<c.l.ch>>, ""))
                         ELSE Return(c.l, pos, c.tok, Str(<<>>)))
          [] ch = 124 -> Two(choice(l, 124, "PIPE", "OR"))
          [] isDigit(ch) \/ ch = 46 -> scanNumber(l, pos, ch)
          [] ch = QUOTE \/ ch = APOS -> scanString(l, pos, ch, <<>>)
          [] OTHER -> Return(l, pos, "ILLEGAL", Msg("unexpected %q", <<ch>>, ""))

(* scan() from the token's first character on: l1 is the lexer with that   *)
(* character in l1.ch.                                                     *)
scanToken(l1) ==
    Bind(next(l1), LAMBDA l2 :
        IF isNameStart(l1.ch)
        THEN Bind(scanName(l2, <<l1.ch>>), LAMBDA n :
             Bind(keywordTokens(n.runes), LAMBDA tok :
                 IF tok = ""
                 THEN Return(n.l, l1.pos, "NAME", Str(n.runes))
                 ELSE Return(n.l, l1.pos, tok, Str(<<>>))))
        ELSE scanSwitch(l2, l1.pos, l1.ch))

(* scan() that reports the end of input at an invalid byte as well.        *)
scanHidesError(l) ==
    Bind([l EXCEPT !.hadSpace = FALSE], LAMBDA l0 :
    Bind(skipSpace(l0), LAMBDA s :
        IF ~s.ok
        THEN Return(s.l, s.l.pos, "ILLEGAL",
                    Msg("expected \\n after \\ line continuation", <<>>, ""))
        ELSE Bind(IF s.l.ch = HASH
                  THEN Bind(next(s.l), LAMBDA lc : skipComment(lc))
                  ELSE s.l, LAMBDA l1 :
             IF l1.ch < 0
             THEN Return(l1, l1.pos, "EOF", Str(<<>>))
             ELSE scanToken(l1))))

(* func (l *Lexer) scan() (Position, Token, string)                        *)
scan(l) ==
    Bind([l EXCEPT !.hadSpace = FALSE], LAMBDA l0 :
    Bind(skipSpace(l0), LAMBDA s :
        IF ~s.ok
        THEN Return(s.l, s.l.pos, "ILLEGAL",
                    Msg("expected \\n after \\ line continuation", <<>>, ""))
        ELSE Bind(IF s.l.ch = HASH
                  THEN Bind(next(s.l), LAMBDA lc : skipComment(lc))
                  ELSE s.l, LAMBDA l1 :
             IF l1.ch < 0
             THEN IF ~IsEmpty(l1.errorMsg)
                  THEN Return(l1, l1.pos, "ILLEGAL", l1.errorMsg)
                  ELSE Return(l1, l1.pos, "EOF", Str(<<>>))
             ELSE scanToken(l1))))

(* func (l *Lexer) scanRegex() (Position, Token, string)                   *)
scanRegex(l) ==
    CASE l.lastTok = "DIV" ->
            regexLoop(l, Position(l.pos.Line, l.pos.Column - 1), <<>>)
      [] l.lastTok = "DIV_ASSIGN" ->
            regexLoop(l, Position(l.pos.Line, l.pos.Column - 2), <<EQ>>)
      [] OTHER ->
            Return(l, l.pos, "ILLEGAL",
                   Msg("unexpected %s preceding regex", <<>>, l.lastTok))

(* func (l *Lexer) HadSpace() bool                                         *)
HadSpace == lex.hadSpace

-----------------------------------------------------------------------------
(* Sources: every byte sequence of at most MaxLen bytes over a set of      *)
(* bytes.  110 is 'n', 116 't', 114 'r', 120 'x', 40 '('; 195 169 is the   *)
(* two-byte encoding of U+00E9, and 195 or 169 elsewhere is an invalid     *)
(* UTF-8 byte.                                                             *)
MaxLen == 4

SlashBytes == {SLASH, EQ, BACKSLASH, LF, CR, QUOTE, 110}
StringBytes == {QUOTE, APOS, BACKSLASH, 110, 116, 114, 120}
ErrorBytes == {QUOTE, SLASH, AMP, BACKSLASH, 110, 195, 169}
SpaceBytes == {SPACE, TAB, CR, LF, BACKSLASH, 110, 40}
PosBytes == {LF, SPACE, SLASH, EQ, 110, 195, 169}
CommentBytes == {SPACE, TAB, CR, LF, BACKSLASH, HASH, QUOTE, 110}
LoopBytes == {SPACE, LF, BACKSLASH, HASH, QUOTE, SLASH, 110, 195}

RECURSIVE Sources(_, _)
Sources(bytes, n) ==
    IF n = 0 THEN {<<>>}
    ELSE LET shorter == Sources(bytes, n - 1) IN
         shorter \cup {Append(s, b) : s \in {t \in shorter : Len(t) = n - 1}, b \in bytes}

NoRet == [pos |-> Position(0, 0), tok |-> "", val |-> Str(<<>>)]

(* The command-line program before main() starts.                          *)
MainIdle ==
    /\ pc = "start"
    /\ prog = <<>>
    /\ log = <<>>
    /\ nread = 0
    /\ exitStatus = 0
    /\ execErr = FALSE
    /\ status = -1
    /\ cause = ""

InitLexer(bytes, n) ==
    /\ \E src \in Sources(bytes, n) : \E l \in {NewLexer(src)} : lex = l
    /\ ret = NoRet
    /\ op = "NewLexer"
    /\ pre = lex
    /\ preRet = NoRet
    /\ MainIdle

Init == InitLexer(SlashBytes, MaxLen)

(* func (l *Lexer) Scan() (Position, Token, string)                        *)
Scan ==
    \E r \in {scan(lex)} :
    /\ lex' = [r.l EXCEPT !.lastTok = r.tok]
    /\ ret' = [pos |-> r.pos, tok |-> r.tok, val |-> r.val]
    /\ op' = "Scan"
    /\ pre' = lex
    /\ preRet' = ret
    /\ UNCHANGED mainVars

(* ScanRegex that does not record the token it returns.                    *)
ScanRegexForgetsTok ==
    \E r \in {scanRegex(lex)} :
    /\ lex' = r.l
    /\ ret' = [pos |-> r.pos, tok |-> r.tok, val |-> r.val]
    /\ op' = "ScanRegex"
    /\ pre' = lex
    /\ preRet' = ret
    /\ UNCHANGED mainVars

(* func (l *Lexer) ScanRegex() (Position, Token, string)                   *)
ScanRegex ==
    \E r \in {scanRegex(lex)} :
    /\ lex' = [r.l EXCEPT !.lastTok = r.tok]
    /\ ret' = [pos |-> r.pos, tok |-> r.tok, val |-> r.val]
    /\ op' = "ScanRegex"
    /\ pre' = lex
    /\ preRet' = ret
    /\ UNCHANGED mainVars

Next == Scan \/ ScanRegex

Spec == Init /\ [][Next]_vars

InitString == InitLexer(StringBytes, MaxLen)
SpecString == InitString /\ [][Next]_vars

InitError == InitLexer(ErrorBytes, MaxLen)
SpecError == InitError /\ [][Next]_vars

InitSpace == InitLexer(SpaceBytes, MaxLen)
SpecSpace == InitSpace /\ [][Next]_vars

InitPos == InitLexer(PosBytes, MaxLen)
SpecPos == InitPos /\ [][Next]_vars

InitComment == InitLexer(CommentBytes, MaxLen)
SpecComment == InitComment /\ [][Next]_vars

(* The documented use: NewLexer(src), then Scan() again and again (the     *)
(* parser calls ScanRegex() in between where a regex may stand).           *)
InitLoop == InitLexer(LoopBytes, MaxLen)
SpecLoop == InitLoop /\ [][Next]_vars /\ WF_vars(Scan)

-----------------------------------------------------------------------------
(* The source text as the claims speak of it: characters, not lexer state. *)

(* The characters of src from byte offset off up to the end of input or    *)
(* the first invalid byte.                                                 *)
RECURSIVE DecodeAll(_, _)
DecodeAll(src, off) ==
    LET d == DecodeRune(src, off) IN
    IF d.size = 0 \/ d.ch = RuneError THEN <<>>
    ELSE <<d.ch>> \o DecodeAll(src, off + d.size)

(* The characters a lexer has not consumed yet (its look-ahead included).  *)
Rest(l) == IF l.ch < 0 THEN <<>> ELSE <<l.ch>> \o DecodeAll(l.src, l.offset)

(* All characters of the source before its first invalid byte.             *)
AllChars == DecodeAll(lex.src, 0)

(* TRUE when the source has an invalid byte.                               *)
RECURSIVE ByteLen(_)
ByteLen(r) == IF r = <<>> THEN 0 ELSE (IF Head(r) < 128 THEN 1 ELSE 2) + ByteLen(Tail(r))
HasInvalidByte == ByteLen(AllChars) < Len(lex.src)

(* The characters the last call consumed.                                  *)
Consumed == SubSeq(Rest(pre), 1, Len(Rest(pre)) - Len(Rest(lex)))

(* Index in r of the first character at or after i that is no space, tab,  *)
(* carriage return or backslash-newline continuation.                      *)
RECURSIVE WsEnd(_, _)
WsEnd(r, i) ==
    IF i > Len(r) THEN i
    ELSE IF r[i] \in {SPACE, TAB, CR} THEN WsEnd(r, i + 1)
    ELSE IF r[i] = BACKSLASH /\ i + 1 <= Len(r) /\ r[i + 1] = LF
    THEN WsEnd(r, i + 2)
    ELSE IF r[i] = BACKSLASH /\ i + 2 <= Len(r) /\ r[i + 1] = CR /\ r[i + 2] = LF
    THEN WsEnd(r, i + 3)
    ELSE i

(* Index of the line feed that ends a comment starting at i (Len(r) + 1    *)
(* when none does); i itself when no comment starts there.                 *)
RECURSIVE LineEnd(_, _)
LineEnd(r, i) == IF i > Len(r) \/ r[i] = LF THEN i ELSE LineEnd(r, i + 1)
CommentEnd(r, i) == IF i <= Len(r) /\ r[i] = HASH THEN LineEnd(r, i) ELSE i

(* Index in r of the first character of the next token.                    *)
TokStart(r) == CommentEnd(r, WsEnd(r, 1))

(* The first character of the token the last Scan call was to return, and  *)
(* the one after it (-1 when there is none).                               *)
CharAt(r, i) == IF i >= 1 /\ i <= Len(r) THEN r[i] ELSE -1
FirstChar == CharAt(Rest(pre), TokStart(Rest(pre)))
SecondChar == CharAt(Rest(pre), TokStart(Rest(pre)) + 1)

(* Index of the first character of S at or after i that no backslash       *)
(* escapes (a backslash escapes the character after it); 0 when there is   *)
(* none.                                                                   *)
RECURSIVE Unescaped(_, _, _)
Unescaped(r, i, S) ==
    IF i > Len(r) THEN 0
    ELSE IF r[i] \in S THEN i
    ELSE IF r[i] = BACKSLASH THEN Unescaped(r, i + 2, S)
    ELSE Unescaped(r, i + 1, S)

(* Index of the delimiter q that closes a literal whose content starts at i. *)
Closing(r, i, q) == Unescaped(r, i, {q})

(* The literal whose content starts at i has a line feed or carriage       *)
(* return before its closing delimiter q.                                  *)
NewlineInside(r, i, q) ==
    LET c == Closing(r, i, q) IN
    c > 0 /\ \E j \in i..(c - 1) : r[j] \in {LF, CR}

(* The same, for a line feed or carriage return that no backslash escapes. *)
RawNewlineInside(r, i, q) ==
    LET k == Unescaped(r, i, {q, LF, CR}) IN
    k > 0 /\ r[k] \in {LF, CR}

IsQuote(c) == c = QUOTE \/ c = APOS

RegexAllowed == pre.lastTok \in {"DIV", "DIV_ASSIGN"}

-----------------------------------------------------------------------------
(* C1: Scan never returns REGEX; when the next token starts with '/', Scan *)
(* returns DIV_ASSIGN if '=' follows it directly and DIV otherwise,        *)
(* whatever comes later on the line.                                       *)
C1_ScanNeverRegex ==
    op = "Scan" =>
        /\ ret.tok # "REGEX"
        /\ FirstChar = SLASH =>
              ret.tok = (IF SecondChar = EQ THEN "DIV_ASSIGN" ELSE "DIV")

(* A Scan at a '/' that has another '/' later on the same line returned DIV. *)
C1_Witness ==
    /\ op = "Scan"
    /\ FirstChar = SLASH
    /\ LET r == Rest(pre)
           s == TokStart(r)
       IN  \E j \in (s + 1)..Len(r) :
               r[j] = SLASH /\ \A k \in s..j : r[k] # LF
    /\ ret.tok = "DIV"

(* C2: ScanRegex returns REGEX only right after a call that returned DIV   *)
(* or DIV_ASSIGN; after anything else it returns ILLEGAL "unexpected ...   *)
(* preceding regex" and leaves offset, ch and pos as they were.            *)
C2_RegexNeedsDiv ==
    /\ ret.tok = "REGEX" =>
          op = "ScanRegex" /\ preRet.tok \in {"DIV", "DIV_ASSIGN"}
    /\ (op = "ScanRegex" /\ preRet.tok \notin {"DIV", "DIV_ASSIGN"}) =>
          /\ ret.tok = "ILLEGAL"
          /\ ret.val = Msg("unexpected %s preceding regex", <<>>, pre.lastTok)
          /\ lex.offset = pre.offset
          /\ lex.ch = pre.ch
          /\ lex.pos = pre.pos

(* ScanRegex called right after a ScanRegex that returned REGEX, with a    *)
(* complete /.../ still ahead, was refused.                                *)
C2_Witness ==
    /\ op = "ScanRegex"
    /\ preRet.tok = "REGEX"
    /\ ret.tok = "ILLEGAL"
    /\ Closing(Rest(pre), 1, SLASH) > 0

(* C3 as stated: a line feed or carriage return anywhere between the       *)
(* delimiters of a string or regex, also one that follows a backslash,     *)
(* makes Scan / ScanRegex return ILLEGAL.                                  *)
C3_AnyNewlineIsError ==
    /\ (op = "Scan" /\ IsQuote(FirstChar)
          /\ NewlineInside(Rest(pre), TokStart(Rest(pre)) + 1, FirstChar))
       => ret.tok = "ILLEGAL"
    /\ (op = "ScanRegex" /\ RegexAllowed /\ NewlineInside(Rest(pre), 1, SLASH))
       => ret.tok = "ILLEGAL"

(* C3 amended: a line feed or carriage return between the delimiters that  *)
(* is not escaped by a backslash makes Scan / ScanRegex return ILLEGAL     *)
(* "can't have newline in string / regex".                                 *)
C3_RawNewlineIsError ==
    /\ (op = "Scan" /\ IsQuote(FirstChar)
          /\ RawNewlineInside(Rest(pre), TokStart(Rest(pre)) + 1, FirstChar))
       => /\ ret.tok = "ILLEGAL"
          /\ ret.val = Msg("can't have newline in string", <<>>, "")
    /\ (op = "ScanRegex" /\ RegexAllowed /\ RawNewlineInside(Rest(pre), 1, SLASH))
       => /\ ret.tok = "ILLEGAL"
          /\ ret.val = Msg("can't have newline in regex", <<>>, "")

(* A string whose line feed follows an escaped backslash was refused.      *)
C3_Witness ==
    /\ op = "Scan"
    /\ FirstChar = QUOTE
    /\ LET r == Rest(pre)
           s == TokStart(r)
       IN  /\ RawNewlineInside(r, s + 1, QUOTE)
           /\ Len(r) >= s + 3
           /\ r[s + 1] = BACKSLASH /\ r[s + 2] = BACKSLASH /\ r[s + 3] = LF
    /\ ret.tok = "ILLEGAL"

(* The value of a regex with content r: \/ stands for /, every other pair  *)
(* backslash-x stays as it is.                                             *)
RECURSIVE RegexValue(_)
RegexValue(r) ==
    IF r = <<>> THEN <<>>
    ELSE IF Head(r) = BACKSLASH /\ Len(r) >= 2
    THEN (IF r[2] = SLASH THEN <<SLASH>> ELSE <<BACKSLASH, r[2]>>)
         \o RegexValue(Tail(Tail(r)))
    ELSE <<Head(r)>> \o RegexValue(Tail(r))

(* C5: a REGEX returned by ScanRegex ends at the first '/' that no         *)
(* backslash escapes, and its value is the text before it with \/ replaced *)
(* by / and every other backslash pair kept, after a leading '=' when the  *)
(* preceding token was DIV_ASSIGN.                                         *)
C5_RegexValue ==
    (op = "ScanRegex" /\ ret.tok = "REGEX") =>
        LET r == Rest(pre)
            c == Closing(r, 1, SLASH)
        IN  /\ c > 0
            /\ Len(Consumed) = c
            /\ ret.val = Str((IF preRet.tok = "DIV_ASSIGN" THEN <<EQ>> ELSE <<>>)
                             \o RegexValue(SubSeq(r, 1, c - 1)))

(* A regex whose value holds a '/', which only an escaped slash can give.  *)
C5_Witness ==
    /\ op = "ScanRegex"
    /\ ret.tok = "REGEX"
    /\ \E i \in 1..Len(ret.val.runes) : ret.val.runes[i] = SLASH

-----------------------------------------------------------------------------
(* The value of a string literal with content r, escape by escape.         *)
RECURSIVE StringValue(_)
StringValue(r) ==
    IF r = <<>> THEN <<>>
    ELSE IF Head(r) = BACKSLASH /\ Len(r) >= 2
    THEN <<CASE r[2] = 116 -> TAB
             [] r[2] = 114 -> CR
             [] r[2] = 110 -> LF
             [] r[2] = QUOTE -> QUOTE
             [] r[2] = BACKSLASH -> BACKSLASH
             [] OTHER -> r[2]>> \o StringValue(Tail(Tail(r)))
    ELSE <<Head(r)>> \o StringValue(Tail(r))

(* C4: for a string literal with a closing quote (and no raw newline in    *)
(* it) Scan returns STRING, consumes the literal up to the first quote     *)
(* that no backslash escapes, and the value is the content with \t \r \n   *)
(* \" \\ replaced and any other backslash-x replaced by x.                 *)
C4_StringValue ==
    LET r == Rest(pre)
        s == TokStart(r)
        c == Closing(r, s + 1, FirstChar)
    IN  (op = "Scan" /\ IsQuote(FirstChar) /\ c > 0
          /\ ~RawNewlineInside(r, s + 1, FirstChar))
        => /\ ret.tok = "STRING"
           /\ Len(Consumed) = c
           /\ ret.val = Str(StringValue(SubSeq(r, s + 1, c - 1)))

(* A literal with an escaped quote and an escape of a character that has   *)
(* no meaning of its own was returned as STRING.                           *)
C4_Witness ==
    /\ op = "Scan"
    /\ ret.tok = "STRING"
    /\ FirstChar = QUOTE
    /\ \E i \in 1..(Len(Consumed) - 2) :
          Consumed[i] = BACKSLASH /\ Consumed[i + 1] \in {QUOTE, 120}
             /\ (i = 1 \/ Consumed[i - 1] # BACKSLASH)
    /\ Len(ret.val.runes) >= 1

-----------------------------------------------------------------------------
(* The characters a token can start with.                                  *)
StartsToken(c) ==
    \/ c \in (65..90) \cup (97..122) \cup {95} \cup (48..57)
    \/ c \in {LF, 58, 44, SLASH, 123, 91, 40, 45, 37, 43, 125, 93, 41, 42, EQ,
              94, 33, 60, 62, 126, 63, 59, 36, AMP, 124, 46, QUOTE, APOS}

(* The last call returned ILLEGAL with an error message.                   *)
Illegal == ret.tok = "ILLEGAL" /\ ~IsEmpty(ret.val)

(* C6: an unterminated string or regex, an invalid UTF-8 byte, a '&' that  *)
(* no '&' follows and a character that starts no token each give ILLEGAL   *)
(* with a non-empty message, never EOF or a valid token; every token other *)
(* than NAME, NUMBER, STRING, REGEX and ILLEGAL has an empty value.        *)
C6_ErrorsAreIllegal ==
    LET r == Rest(pre)
        s == TokStart(r)
    IN  /\ (op = "Scan" /\ IsQuote(FirstChar) /\ Closing(r, s + 1, FirstChar) = 0)
              => Illegal
        /\ (op = "ScanRegex" /\ RegexAllowed /\ Closing(r, 1, SLASH) = 0)
              => Illegal
        /\ (op = "Scan" /\ s > Len(r) /\ HasInvalidByte)
              => /\ ret.tok = "ILLEGAL"
                 /\ ret.val = Msg("invalid UTF-8 byte 0x%02x",
                                  <<lex.src[ByteLen(AllChars) + 1]>>, "")
        /\ ret.tok = "EOF" => ~HasInvalidByte
        /\ (op = "Scan" /\ FirstChar = AMP /\ SecondChar # AMP)
              => /\ ret.tok = "ILLEGAL"
                 /\ ret.val = Msg("unexpected %q after '&'", <<SecondChar>>, "")
        /\ (op = "Scan" /\ FirstChar >= 0 /\ ~StartsToken(FirstChar))
              => Illegal
        /\ (op # "NewLexer"
              /\ ret.tok \notin {"NAME", "NUMBER", "STRING", "REGEX", "ILLEGAL"})
              => IsEmpty(ret.val)

(* An invalid byte right after a name: the name was returned, then the     *)
(* next Scan reported the byte.                                            *)
C6_Witness ==
    /\ op = "Scan"
    /\ preRet.tok = "NAME"
    /\ HasInvalidByte
    /\ ret.tok = "ILLEGAL"
    /\ ret.val.fmt = "invalid UTF-8 byte 0x%02x"

-----------------------------------------------------------------------------
(* Scan skipped a space, tab, carriage return or backslash-newline         *)
(* continuation before the token.                                          *)
SkippedSpace == WsEnd(Rest(pre), 1) > 1

(* Scan stopped at a backslash that starts no continuation.                *)
BadContinuation == CharAt(Rest(pre), WsEnd(Rest(pre), 1)) = BACKSLASH

-----------------------------------------------------------------------------
(* Line and column of the k-th character of chars (k may be one past the   *)
(* last): lines and columns count from 1, a line feed ends its line.       *)
PosOfIndex(chars, k) ==
    LET lfs  == {i \in 1..(k - 1) : chars[i] = LF}
        last == IF lfs = {} THEN 0 ELSE CHOOSE i \in lfs : \A j \in lfs : j <= i
    IN  Position(1 + Cardinality(lfs), k - last)

PosLeq(a, b) == a.Line < b.Line \/ (a.Line = b.Line /\ a.Column <= b.Column)

(* Index in AllChars of the first character the last call had not consumed. *)
CursorIndex == Len(AllChars) - Len(Rest(pre)) + 1

(* C10: a token of Scan other than ILLEGAL has the line and column (in     *)
(* characters, from 1) of its first character; a REGEX has the position of *)
(* its opening slash, which is that of the DIV or DIV_ASSIGN before it;    *)
(* the positions of successive tokens never decrease.                      *)
C10_Positions ==
    /\ (op = "Scan" /\ ret.tok # "ILLEGAL")
          => ret.pos = PosOfIndex(AllChars, CursorIndex + TokStart(Rest(pre)) - 1)
    /\ (op = "ScanRegex" /\ ret.tok = "REGEX")
          => LET k == CursorIndex - (IF preRet.tok = "DIV" THEN 1 ELSE 2) IN
             /\ ret.pos = preRet.pos
             /\ AllChars[k] = SLASH
             /\ ret.pos = PosOfIndex(AllChars, k)
    /\ (op # "NewLexer" /\ preRet.tok # "") => PosLeq(preRet.pos, ret.pos)

(* A name right after a two-byte character: its column is the character   *)
(* count.                                                                  *)
C10_Witness ==
    /\ op = "Scan"
    /\ ret.tok = "NAME"
    /\ CursorIndex + TokStart(Rest(pre)) - 1 >= 2
    /\ AllChars[CursorIndex + TokStart(Rest(pre)) - 2] = 233
    /\ ret.pos.Column >= 2

-----------------------------------------------------------------------------
(* What lies between tokens, in the characters r the call started from:    *)
(* white space and continuations up to WsEnd, then a comment up to the     *)
(* line feed that ends it.  TokenChars are the characters the call took    *)
(* after that.                                                             *)
TokenChars ==
    SubSeq(Rest(pre), TokStart(Rest(pre)), Len(Consumed))

(* C11: between tokens Scan skips spaces, tabs, carriage returns,          *)
(* continuations and a comment up to its line feed, and returns no token   *)
(* for them: the token it returns takes at least one character after them, *)
(* and EOF means nothing else was left.  A line feed after them is         *)
(* returned as NEWLINE, which takes that line feed only; NEWLINE is        *)
(* returned for nothing else, and no other token but a string takes a line *)
(* feed.  A backslash between tokens that starts no continuation makes     *)
(* Scan return ILLEGAL.                                                    *)
C11_SkipsAndNewlines ==
    op = "Scan" =>
        /\ BadContinuation
              => /\ ret.tok = "ILLEGAL"
                 /\ ret.val = Msg("expected \\n after \\ line continuation", <<>>, "")
        /\ (~BadContinuation /\ FirstChar = LF)
              => /\ ret.tok = "NEWLINE"
                 /\ TokenChars = <<LF>>
                 /\ IsEmpty(ret.val)
        /\ ret.tok = "NEWLINE" => (~BadContinuation /\ FirstChar = LF)
        /\ ret.tok = "EOF" => Len(Consumed) = Len(Rest(pre)) /\ TokenChars = <<>>
        /\ ret.tok \notin {"ILLEGAL", "EOF"} => Len(TokenChars) >= 1
        /\ ret.tok \notin {"ILLEGAL", "NEWLINE", "STRING"}
              => \A i \in 1..Len(TokenChars) : TokenChars[i] # LF

(* A comment line: Scan skipped a comment of at least one character after  *)
(* the '#' and returned the line feed that ends it as NEWLINE.             *)
C11_Witness ==
    /\ op = "Scan"
    /\ ret.tok = "NEWLINE"
    /\ CharAt(Rest(pre), WsEnd(Rest(pre), 1)) = HASH
    /\ TokStart(Rest(pre)) > WsEnd(Rest(pre), 1) + 1

-----------------------------------------------------------------------------
(* The bytes of the source a lexer has not consumed: those from its offset *)
(* on, and those of the character it holds in ch.                          *)
Unread(l) ==
    (IF l.ch < 0 THEN 0 ELSE IF l.ch < 128 THEN 1 ELSE 2) + Len(l.src) - l.offset

(* The loop 'call Scan until the token is EOF or ILLEGAL' has ended.       *)
LoopEnded == op = "Scan" /\ ret.tok \in {"EOF", "ILLEGAL"}

(* C12: a Scan that returns a token other than EOF and ILLEGAL consumes at *)
(* least one byte; EOF is returned only when every byte has been consumed; *)
(* when every byte has been consumed without an error (as it is once EOF   *)
(* was returned), no call consumes or moves anything and Scan returns EOF  *)
(* at the same position; and the loop 'call Scan until the token is EOF or *)
(* ILLEGAL' ends.                                                          *)
C12_ScanLoopEnds ==
    /\ []((op = "Scan" /\ ret.tok \notin {"EOF", "ILLEGAL"})
             => Unread(lex) < Unread(pre))
    /\ []((op = "Scan" /\ ret.tok = "EOF")
             => /\ Unread(lex) = 0
                /\ IsEmpty(lex.errorMsg)
                /\ ret.pos = lex.pos)
    /\ []((op # "NewLexer" /\ Unread(pre) = 0 /\ IsEmpty(pre.errorMsg))
             => /\ Unread(lex) = 0
                /\ IsEmpty(lex.errorMsg)
                /\ lex.pos = pre.pos
                /\ op = "Scan" => (ret.tok = "EOF" /\ ret.pos = pre.pos))
    /\ <>LoopEnded

(* Scan returned EOF a second time, at the position of the first, for a    *)
(* source of which an earlier Scan had returned a token.                   *)
C12_Witness ==
    /\ op = "Scan"
    /\ ret.tok = "EOF"
    /\ preRet.tok = "EOF"
    /\ ret.pos = preRet.pos
    /\ Len(lex.src) > 0
    /\ ret.pos.Column > 1

-----------------------------------------------------------------------------
(* The command-line program: func main(), and the interpreter's run of the *)
(* parsed program (p.Exec), one phase per action.                          *)

MaxRules == 3
MaxRecords == 1

(* A statement is an ordinary one ("print"), "exit" with status n (-1 when *)
(* the status is omitted), a call of a function whose body is "exit n", or *)
(* one that fails at run time ("error").                                   *)
Stmt(o, n) == [op |-> o, n |-> n]

Bodies ==
    { <<Stmt("print", -1)>>,
      <<Stmt("exit", -1), Stmt("print", -1)>>,
      <<Stmt("call", 3), Stmt("print", -1)>>,
      <<Stmt("error", -1)>> }

Rules == [kind : {"BEGIN", "ALWAYS", "END"}, body : Bodies]

RECURSIVE Programs(_)
Programs(n) ==
    IF n = 0 THEN {<<>>}
    ELSE LET shorter == Programs(n - 1) IN
         shorter \cup {Append(q, r) : q \in {t \in shorter : Len(t) = n - 1}, r \in Rules}

(* The indices of the rules of kind k, in program order.                   *)
RECURSIVE RulesOfKind(_, _, _)
RulesOfKind(program, k, i) ==
    IF i > Len(program) THEN <<>>
    ELSE (IF program[i].kind = k THEN <<i>> ELSE <<>>) \o RulesOfKind(program, k, i + 1)

(* Statement j of rule `rule` onwards: what ran, and how the body ended.   *)
RECURSIVE execStmts(_, _, _)
execStmts(rule, body, j) ==
    IF j > Len(body) THEN [log |-> <<>>, outcome |-> "ok", n |-> -1]
    ELSE LET e == <<[rule |-> rule, stmt |-> j]>> IN
         CASE body[j].op = "print" ->
                LET r == execStmts(rule, body, j + 1) IN [r EXCEPT !.log = e \o @]
           [] body[j].op \in {"exit", "call"} ->
                [log |-> e, outcome |-> "exit", n |-> body[j].n]
           [] OTHER ->
                [log |-> e, outcome |-> "error", n |-> -1]

(* The rules rs[k..] in order, up to the first exit or error.              *)
RECURSIVE execRules(_, _, _)
execRules(program, rs, k) ==
    IF k > Len(rs) THEN [log |-> <<>>, outcome |-> "ok", n |-> -1]
    ELSE LET r == execStmts(rs[k], program[rs[k]].body, 1) IN
         IF r.outcome # "ok" THEN r
         ELSE LET rest == execRules(program, rs, k + 1) IN
              [rest EXCEPT !.log = r.log \o @]

(* errorExit with status 2.                                                *)
errorExitTwo(why) ==
    /\ status' = 2
    /\ cause' = why
    /\ pc' = "exited"

(* func errorExit(format string, args ...interface{}): os.Exit(1)          *)
errorExit(why) ==
    /\ status' = 1
    /\ cause' = why
    /\ pc' = "exited"

(* main: the program source, from -f files or from the first argument.     *)
MainLoadSource ==
    /\ pc = "start"
    /\ \E progFiles \in 0..1, readOk \in BOOLEAN, nargs \in 0..1 :
          IF progFiles > 0
          THEN IF readOk
               THEN pc' = "parse" /\ UNCHANGED <<status, cause>>
               ELSE errorExit("io")
          ELSE IF nargs < 1
               THEN errorExit("usage")
               ELSE pc' = "parse" /\ UNCHANGED <<status, cause>>
    /\ UNCHANGED <<prog, log, nread, exitStatus, execErr, lexVars>>

(* main: parser.ParseProgram(src), which fails or gives a program.         *)
MainParse ==
    /\ pc = "parse"
    /\ \/ /\ errorExit("parse")
          /\ UNCHANGED prog
       \/ /\ \E program \in Programs(MaxRules) : prog' = program
          /\ pc' = "cpuprofile"
          /\ UNCHANGED <<status, cause>>
    /\ UNCHANGED <<log, nread, exitStatus, execErr, lexVars>>

(* main: -cpuprofile, whose file may fail to be created or started.        *)
MainCpuProfile ==
    /\ pc = "cpuprofile"
    /\ \E cpuprofile \in {"", "ok", "fail"} :
          IF cpuprofile = "fail"
          THEN errorExit("profile")
          ELSE pc' = "vars" /\ UNCHANGED <<status, cause>>
    /\ UNCHANGED <<prog, log, nread, exitStatus, execErr, lexVars>>

(* main: interp.New, FS and the -v assignments, each name=value or not.    *)
MainSetVars ==
    /\ pc = "vars"
    /\ \E v \in {<<>>, <<TRUE>>, <<FALSE>>, <<TRUE, FALSE>>, <<TRUE, TRUE>>} :
          IF \E i \in 1..Len(v) : ~v[i]
          THEN errorExit("badvar")
          ELSE pc' = "begin" /\ UNCHANGED <<status, cause>>
    /\ UNCHANGED <<prog, log, nread, exitStatus, execErr, lexVars>>

(* The status an exit statement leaves: n, 0 when n is omitted.            *)
ExitCode(n) == IF n < 0 THEN 0 ELSE n

(* p.Exec: all BEGIN rules in program order.                               *)
ExecBegin ==
    /\ pc = "begin"
    /\ LET r == execRules(prog, RulesOfKind(prog, "BEGIN", 1), 1) IN
       /\ log' = log \o r.log
       /\ CASE r.outcome = "exit" ->
                 exitStatus' = ExitCode(r.n) /\ pc' = "end" /\ UNCHANGED execErr
            [] r.outcome = "error" ->
                 execErr' = TRUE /\ pc' = "execdone" /\ UNCHANGED exitStatus
            [] OTHER ->
                 /\ pc' = IF RulesOfKind(prog, "ALWAYS", 1) # <<>>
                          THEN "records" ELSE "end"
                 /\ UNCHANGED <<exitStatus, execErr>>
    /\ UNCHANGED <<prog, nread, status, cause, lexVars>>

(* p.Exec: one input record, against every rule that is not BEGIN or END.  *)
ExecRecord ==
    /\ pc = "records"
    /\ nread < MaxRecords
    /\ nread' = nread + 1
    /\ LET r == execRules(prog, RulesOfKind(prog, "ALWAYS", 1), 1) IN
       /\ log' = log \o r.log
       /\ CASE r.outcome = "exit" ->
                 exitStatus' = ExitCode(r.n) /\ pc' = "end" /\ UNCHANGED execErr
            [] r.outcome = "error" ->
                 execErr' = TRUE /\ pc' = "execdone" /\ UNCHANGED exitStatus
            [] OTHER ->
                 UNCHANGED <<pc, exitStatus, execErr>>
    /\ UNCHANGED <<prog, status, cause, lexVars>>

(* p.Exec: the end of the input.                                           *)
ExecEndOfInput ==
    /\ pc = "records"
    /\ pc' = "end"
    /\ UNCHANGED <<prog, log, nread, exitStatus, execErr, status, cause, lexVars>>

(* p.Exec: all END rules in program order; an exit in one ends the run.    *)
ExecEnd ==
    /\ pc = "end"
    /\ LET r == execRules(prog, RulesOfKind(prog, "END", 1), 1) IN
       /\ log' = log \o r.log
       /\ pc' = "execdone"
       /\ CASE r.outcome = "exit" ->
                 exitStatus' = ExitCode(r.n) /\ UNCHANGED execErr
            [] r.outcome = "error" ->
                 execErr' = TRUE /\ UNCHANGED exitStatus
            [] OTHER ->
                 UNCHANGED <<exitStatus, execErr>>
    /\ UNCHANGED <<prog, nread, status, cause, lexVars>>

(* main: err = p.Exec(...); if err != nil { errorExit }                    *)
MainAfterExec ==
    /\ pc = "execdone"
    /\ IF execErr
       THEN errorExit("runtime")
       ELSE pc' = "memprofile" /\ UNCHANGED <<status, cause>>
    /\ UNCHANGED <<prog, log, nread, exitStatus, execErr, lexVars>>

(* main: -memprofile, whose file may fail to be created or written.        *)
MainMemProfile ==
    /\ pc = "memprofile"
    /\ \E memprofile \in {"", "ok", "fail"} :
          IF memprofile = "fail"
          THEN errorExit("profile")
          ELSE pc' = "exit" /\ UNCHANGED <<status, cause>>
    /\ UNCHANGED <<prog, log, nread, exitStatus, execErr, lexVars>>

(* main that always exits with 0.                                          *)
MainExitZero ==
    /\ pc = "exit"
    /\ status' = 0
    /\ cause' = "done"
    /\ pc' = "exited"
    /\ UNCHANGED <<prog, log, nread, exitStatus, execErr, lexVars>>

(* main: os.Exit(p.ExitStatus())                                           *)
MainExit ==
    /\ pc = "exit"
    /\ status' = exitStatus
    /\ cause' = "done"
    /\ pc' = "exited"
    /\ UNCHANGED <<prog, log, nread, exitStatus, execErr, lexVars>>

InitMain ==
    /\ lex = NewLexer(<<>>)
    /\ ret = NoRet
    /\ op = "NewLexer"
    /\ pre = lex
    /\ preRet = NoRet
    /\ MainIdle

NextMain ==
    \/ MainLoadSource
    \/ MainParse
    \/ MainCpuProfile
    \/ MainSetVars
    \/ ExecBegin
    \/ ExecRecord
    \/ ExecEndOfInput
    \/ ExecEnd
    \/ MainAfterExec
    \/ MainMemProfile
    \/ MainExit

SpecMain == InitMain /\ [][NextMain]_vars

-----------------------------------------------------------------------------
Kind(e) == prog[e.rule].kind
StmtOf(e) == prog[e.rule].body[e.stmt]
IsExit(e) == StmtOf(e).op \in {"exit", "call"}

(* The indices in log of the exits executed, and the first and last.       *)
Exits == {i \in 1..Len(log) : IsExit(log[i])}
FirstExit == CHOOSE i \in Exits : \A j \in Exits : i <= j
LastExit == CHOOSE i \in Exits : \A j \in Exits : j <= i

(* The END rules entered so far, in the order they were entered.           *)
RECURSIVE EndEntered(_)
EndEntered(i) ==
    IF i > Len(log) THEN <<>>
    ELSE (IF Kind(log[i]) = "END" /\ log[i].stmt = 1 THEN <<log[i].rule>> ELSE <<>>)
         \o EndEntered(i + 1)

(* p.Exec has returned.                                                    *)
ExecOver == pc \in {"execdone", "memprofile", "exit", "exited"}

(* An END rule ended the run itself, by exit or by an error.               *)
EndCutShort ==
    \E i \in 1..Len(log) :
        Kind(log[i]) = "END" /\ StmtOf(log[i]).op \in {"exit", "call", "error"}

(* C8: after an exit outside END nothing outside END runs any more, the    *)
(* END rules run once each in program order, and the process exits with    *)
(* the status of the exit (0 when omitted); after an exit inside END       *)
(* nothing runs at all.                                                    *)
C8_ExitRunsEnd ==
    Exits # {} =>
        /\ \A i \in (FirstExit + 1)..Len(log) : Kind(log[i]) = "END"
        /\ \A i \in Exits : Kind(log[i]) = "END" => i = Len(log)
        /\ (ExecOver /\ Kind(log[FirstExit]) # "END")
              => LET ends == RulesOfKind(prog, "END", 1)
                     ran  == EndEntered(1)
                 IN  /\ Len(ran) <= Len(ends)
                     /\ ran = SubSeq(ends, 1, Len(ran))
                     /\ ~EndCutShort => ran = ends
        /\ (pc = "exited" /\ cause = "done")
              => status = ExitCode(StmtOf(log[LastExit]).n)

(* exit 3 in a function called from BEGIN, a statement after the call, and *)
(* two END rules: both END rules ran and the process exited with 3.        *)
C8_Witness ==
    /\ pc = "exited"
    /\ cause = "done"
    /\ Exits # {}
    /\ Kind(log[FirstExit]) = "BEGIN"
    /\ StmtOf(log[FirstExit]).op = "call"
    /\ Len(EndEntered(1)) = 2
    /\ status = 3

(* No statement of the program has been executed.                          *)
NothingRan == log = <<>>

(* C9 as stated: status 2 for a usage error (no program text, or a -v      *)
(* argument that is not name=value).                                       *)
C9_UsageErrorIsTwo ==
    (pc = "exited" /\ cause \in {"usage", "badvar"}) => status = 2

(* C9 amended: the status is 1 for a usage error, a -v argument that is    *)
(* not name=value, a parse error and a failed execution, and otherwise the *)
(* interpreter's status: 0, or the argument of the exit executed; nothing  *)
(* of the program runs when the usage check, the -v check or the parse     *)
(* fails.                                                                  *)
C9_ExitStatus ==
    pc = "exited" =>
        /\ cause \in {"usage", "badvar", "parse", "runtime"} => status = 1
        /\ cause \in {"usage", "badvar", "parse"} => NothingRan
        /\ cause = "done"
              => /\ ~execErr
                 /\ status = (IF Exits = {} THEN 0
                              ELSE ExitCode(StmtOf(log[LastExit]).n))

(* A -v argument without '=' after a successful parse: status 1, nothing   *)
(* ran.                                                                    *)
C9_Witness ==
    /\ pc = "exited"
    /\ cause = "badvar"
    /\ prog # <<>>
    /\ status = 1
    /\ NothingRan

====
